---- MODULE Spec2Model ----
(***************************************************************************)
(* jwt-with-go: the request-handling pipeline of the API server.           *)
(*                                                                         *)
(* A request to a /users route runs through the chain chi builds from the  *)
(* route table: one MiddlewareAdapter layer per declared middleware, then  *)
(* the ApiHandlerAdapter of the domain handler.  Every layer shares the    *)
(* request's http.ResponseWriter.  The store is the users table; tokens    *)
(* are the signed claims handed out by register and login.                 *)
(***************************************************************************)
EXTENDS Integers, Sequences, FiniteSets, TLC

VARIABLES users, nextId, now, issued, phase, req

vars == <<users, nextId, now, issued, phase, req>>

(***************************************************************************)
(* Bounds of the exploration.                                              *)
(***************************************************************************)
MaxId == 2
MaxNow == 16
MaxTokens == 2

Reqs == {1}
Names == {"A"}
Emails == {"a@x", "b@x"}
Passwords == {"p"}

(***************************************************************************)
(* Program constants.                                                      *)
(***************************************************************************)
\* The clock counts half seconds; a token's expiry is kept in whole seconds.
Second == 2
Minute == 60 * Second

TokenTTL == 15
TickSteps == {8 * Minute}
JWT_SECRET == "secret"
ADMIN_EMAIL == "admin@x"
ADMIN_PASSWORD == "adminpw"

StatusOK == 200
StatusCreated == 201
StatusNoContent == 204
StatusBadRequest == 400
StatusUnauthorized == 401
StatusForbidden == 403
StatusNotFound == 404
StatusConflict == 409
StatusInternalServerError == 500

NilValue == "<nil>"

(***************************************************************************)
(* Result envelope: the (success, error) pair an ApiHandlerFunc returns.   *)
(***************************************************************************)
NilData == [type |-> "nil"]

NoEnvelope == [kind |-> "none", status |-> 0, code |-> "", message |-> "",
               detail |-> "", data |-> NilData]

HandlerSuccess(status, data) ==
    [kind |-> "success", status |-> status, code |-> "", message |-> "",
     detail |-> "", data |-> data]

HandlerError(status, code, message, detail) ==
    [kind |-> "failure", status |-> status, code |-> code,
     message |-> message, detail |-> detail, data |-> NilData]

InternalError ==
    HandlerError(StatusInternalServerError, "E500", "Internal Server Error",
                 "Something went wrong. Contact support or try again later")

(***************************************************************************)
(* http.ResponseWriter as the adapters use it.  calls is every WriteHeader *)
(* call, writes every payload handed to Write by an encoder; status and    *)
(* body are what the connection carries: the first WriteHeader decides the *)
(* status, and a status that allows no body (204) makes Write fail.        *)
(***************************************************************************)
NewResponseWriter ==
    [contentType |-> "", wroteHeader |-> FALSE, status |-> 0,
     calls |-> <<>>, ctAtWrite |-> <<>>, writes |-> <<>>, body |-> <<>>]

\* A Content-Type that is only set once a status has gone out.
SetContentTypeOnceWritten(w) ==
    IF w.wroteHeader THEN [w EXCEPT !.contentType = "application/json"] ELSE w

SetContentType(w) == [w EXCEPT !.contentType = "application/json"]

\* A writer on which the last WriteHeader decides the status.
WriteHeaderLastWins(w, status) ==
    [w EXCEPT !.calls = Append(@, status),
              !.ctAtWrite = Append(@, w.contentType),
              !.status = status,
              !.wroteHeader = TRUE]

WriteHeader(w, status) ==
    [w EXCEPT !.calls = Append(@, status),
              !.ctAtWrite = Append(@, w.contentType),
              !.status = IF w.wroteHeader THEN @ ELSE status,
              !.wroteHeader = TRUE]

BodyAllowed(status) == status # StatusNoContent

\* encoding/json: a nil value, and a nil slice, encode as null.
IsNil(v) == v.type = "nil" \/ (v.type = "users" /\ v.rows = {})

JsonEncode(v) == IF IsNil(v) THEN [json |-> "null", of |-> NilData]
                             ELSE [json |-> "value", of |-> v]

Encode(w, v) ==
    [w EXCEPT !.writes = Append(@, JsonEncode(v)),
              !.body = IF BodyAllowed(w.status) THEN Append(@, JsonEncode(v))
                                                ELSE @]

ErrorResponse(env) ==
    [type |-> "error", code |-> env.code, message |-> env.message,
     detail |-> env.detail]

\* The rendering tail of ApiHandlerAdapter: Encode is called on the data
\* of every success envelope.
ApiHandlerAdapter(w, env) ==
    IF env.kind = "failure"
    THEN Encode(WriteHeader(w, env.status), ErrorResponse(env))
    ELSE IF env.kind = "success"
         THEN Encode(WriteHeader(w, env.status), env.data)
         ELSE w

\* The rendering tail of MiddlewareAdapter: nil data is not encoded.
MiddlewareAdapter(w, env) ==
    IF env.kind = "failure"
    THEN Encode(WriteHeader(w, env.status), ErrorResponse(env))
    ELSE IF env.kind = "success"
         THEN IF env.data.type # "nil"
              THEN Encode(WriteHeader(w, env.status), env.data)
              ELSE WriteHeader(w, env.status)
         ELSE w

\* chi's middleware.Recoverer, installed on the root router: a panic in any
\* layer below it ends the request with a bare 500.
Recoverer(w) == WriteHeader(w, StatusInternalServerError)

(***************************************************************************)
(* Tokens.  A token is its claims together with the algorithm and the key  *)
(* that signed it; exp is in seconds.  signedAt is the instant of the      *)
(* clock at which it was signed: no claim carries it and no code reads it. *)
(***************************************************************************)
Token(username, role, exp, alg, key, signedAt) ==
    [kind |-> "jwt", username |-> username, role |-> role, exp |-> exp,
     alg |-> alg, key |-> key, signedAt |-> signedAt]

GarbageToken == [kind |-> "garbage", username |-> NilValue, role |-> NilValue,
                 exp |-> 0, alg |-> "", key |-> "", signedAt |-> 0]

EmptyToken == [kind |-> "empty", username |-> NilValue, role |-> NilValue,
               exp |-> 0, alg |-> "", key |-> "", signedAt |-> 0]

\* time.Time.Unix: the whole seconds of an instant.
Unix(t) == t \div Second

\* The instant a NumericDate claim stands for.
NumericDate(secs) == secs * Second

SigningMethodHMAC == {"HS256", "HS384", "HS512"}

\* The expiry rounded up to the next whole second.
CreateJwtTokenRoundedUp(username, role, t) ==
    Token(username, role, Unix(t + TokenTTL * Minute) + 1, "HS256",
          JWT_SECRET, t)

CreateJwtToken(username, role, t) ==
    Token(username, role, Unix(t + TokenTTL * Minute), "HS256", JWT_SECRET, t)

VerifyJwtTokenNoExpiry(tok, t) ==
    /\ tok.kind = "jwt"
    /\ tok.alg \in SigningMethodHMAC
    /\ tok.key = JWT_SECRET

\* jwt.Parse with the key function of VerifyJwtToken: the token must parse,
\* its method must be an HMAC one, the signature must verify with
\* JWT_SECRET, and the expiry must lie in the future.
VerifyJwtToken(tok, t) ==
    /\ tok.kind = "jwt"
    /\ tok.alg \in SigningMethodHMAC
    /\ tok.key = JWT_SECRET
    /\ t < NumericDate(tok.exp)

\* Tokens a client can build without the server's secret.
ForgedTokens ==
    { Token("Admin", "admin", (MaxNow + TokenTTL) * 60, "HS256", "guess", 0),
      Token("Admin", "admin", (MaxNow + TokenTTL) * 60, "none", "", 0),
      Token("Admin", "admin", (MaxNow + TokenTTL) * 60, "RS256", JWT_SECRET, 0),
      GarbageToken }

(***************************************************************************)
(* The Authorization header, as a sequence of atoms: words, single spaces  *)
(* and token strings.  strings.Split(header, " ") cuts at every space, so  *)
(* two spaces in a row give an empty part.                                 *)
(***************************************************************************)
Word(s) == [ch |-> s, tok |-> EmptyToken]
Space == Word(" ")
Tok(t) == [ch |-> "tok", tok |-> t]

RECURSIVE SplitFrom(_, _, _)
SplitFrom(h, i, cur) ==
    IF i > Len(h) THEN <<cur>>
    ELSE IF h[i] = Space THEN <<cur>> \o SplitFrom(h, i + 1, <<>>)
         ELSE SplitFrom(h, i + 1, Append(cur, h[i]))

Split(h) == SplitFrom(h, 1, <<>>)

\* The token string carried by one part of the header.
TokenOf(part) ==
    IF part = <<>> THEN EmptyToken
    ELSE IF Len(part) = 1 /\ part[1].ch = "tok" THEN part[1].tok
         ELSE GarbageToken

\* The headers a client sends: the well-formed one with any token it can
\* build, and the malformed ones around a token the server issued.
Headers(I, F) ==
    { <<Word("Bearer"), Space, Tok(t)>> : t \in I \cup F }
    \cup { <<Tok(t)>> : t \in I }
    \cup { <<Word("bearer"), Space, Tok(t)>> : t \in I }
    \cup { <<Word("Token"), Space, Tok(t)>> : t \in I }
    \cup { <<Word("Bearer"), Space, Space, Tok(t)>> : t \in I }
    \cup { <<>>, <<Word("Bearer"), Space>>, <<Word("Bearer")>> }

(***************************************************************************)
(* The request context: a chain of (key, value) entries.  A key is a typed *)
(* value: contextKey("role") and the plain string "role" are different     *)
(* keys.                                                                   *)
(***************************************************************************)
ContextUsernameKey == [type |-> "contextKey", name |-> "username"]
ContextRoleKey == [type |-> "contextKey", name |-> "role"]
StringKey(s) == [type |-> "string", name |-> s]

WithValue(ctx, key, val) == Append(ctx, [key |-> key, val |-> val])

RECURSIVE ValueFrom(_, _, _)
ValueFrom(ctx, i, key) ==
    IF i = 0 THEN NilValue
    ELSE IF ctx[i].key = key THEN ctx[i].val
         ELSE ValueFrom(ctx, i - 1, key)

Value(ctx, key) == ValueFrom(ctx, Len(ctx), key)

(***************************************************************************)
(* The users table.  A row is (id, name, email, password, role); email is  *)
(* unique; ids come from a sequence and are never reused.                  *)
(***************************************************************************)
Hash(p) == [alg |-> "bcrypt", of |-> p]
NullPassword == [alg |-> "null", of |-> ""]
\* A comparison that lets every password pass.
CompareHashAndPasswordAny(h, p) == h.alg = "bcrypt"

CompareHashAndPassword(h, p) == h.alg = "bcrypt" /\ h.of = p

Row(id, name, email, hash, role) ==
    [id |-> id, name |-> name, email |-> email, hash |-> hash, role |-> role]

RowsById(U, id) == { u \in U : u.id = id }
RowsByEmail(U, email) == { u \in U : u.email = email }
\* A table without the unique constraint on email.
UniqueViolationNever(U, email, exceptId) == FALSE

UniqueViolation(U, email, exceptId) ==
    \E u \in U : u.email = email /\ u.id # exceptId

\* The response model `user`; a field the query does not scan keeps the
\* zero value.
UserData(id, name, email, role) ==
    [type |-> "user", id |-> id, name |-> name, email |-> email, role |-> role]

AuthResponse(message, token) ==
    [type |-> "auth", message |-> message, token |-> token]

\* strconv.Atoi on the path parameter.
IdStrs == {"1", "2", "3", "abc"}
\* A conversion that turns what is no number into 0.
AtoiLenient(s) ==
    CASE s = "1" -> [ok |-> TRUE, val |-> 1]
      [] s = "2" -> [ok |-> TRUE, val |-> 2]
      [] s = "3" -> [ok |-> TRUE, val |-> 3]
      [] OTHER -> [ok |-> TRUE, val |-> 0]

Atoi(s) ==
    CASE s = "1" -> [ok |-> TRUE, val |-> 1]
      [] s = "2" -> [ok |-> TRUE, val |-> 2]
      [] s = "3" -> [ok |-> TRUE, val |-> 3]
      [] OTHER -> [ok |-> FALSE, val |-> 0]

\* A request body: whether json.Decoder.Decode reads a JSON value of the
\* request type off its front, the decoded fields ("" for a field that is
\* missing), and the bytes that follow that value.  Decode stops at the end
\* of the value and looks at no byte after it.
Body(valid, name, email, password) ==
    [valid |-> valid, name |-> name, email |-> email, password |-> password,
     rest |-> ""]
NoBody == Body(FALSE, "", "", "")

\* The same JSON value with bytes after it that are no JSON.
WithTrailingData(b) == [b EXCEPT !.rest = "}"]

\* What a handler hands back to its adapter: the envelope, the table after
\* its commands, the sequence value, how many queries or commands it sent
\* to the store, and the tokens it signed.
Result(env, U, nid, ops, toks) ==
    [env |-> env, users |-> U, nextId |-> nid, ops |-> ops, tokens |-> toks]

NotAValidId ==
    HandlerError(StatusBadRequest, "E400", "Not a valid id",
                 "Path parameter 'id' must be an integer")
UserNotFound(idStr) ==
    HandlerError(StatusNotFound, "E404", "Not found",
                 "User with id " \o idStr \o " not found")
\* A conflict reported under the code of a bad request.
EmailConflictAsE400 ==
    HandlerError(StatusConflict, "E400", "Conflict",
                 "Email is already in use. Please use a different email.")

EmailConflict ==
    HandlerError(StatusConflict, "E409", "Conflict",
                 "Email is already in use. Please use a different email.")

getMockUser(U, nid) ==
    Result(HandlerSuccess(StatusOK, UserData(1, "Yan", "XO2iM@example.com", "")),
           U, nid, 0, {})

\* insertUser names only name and email in its INSERT; schema says what
\* the table does with the two columns left out: it fills in defaults, or
\* it refuses the row.
SchemaOutcomes == {"defaults", "not_null_violation"}

insertUser(body, U, nid, schema) ==
    IF ~body.valid
    THEN Result(HandlerError(StatusBadRequest, "E400", "Invalid request body",
                             "Not a valid JSON"), U, nid, 0, {})
    ELSE IF body.name = "" \/ body.email = ""
    THEN Result(HandlerError(StatusBadRequest, "E400", "Invalid request body",
                             "name and email are required"), U, nid, 0, {})
    ELSE IF UniqueViolation(U, body.email, 0)
    THEN Result(EmailConflict, U, nid, 1, {})
    ELSE IF schema = "not_null_violation"
    THEN Result(InternalError, U, nid, 1, {})
    ELSE Result(HandlerSuccess(StatusCreated,
                               UserData(nid, body.name, body.email, "")),
                U \cup {Row(nid, body.name, body.email, NullPassword, "user")},
                nid + 1, 1, {})

getAllUsers(U, nid) ==
    Result(HandlerSuccess(StatusOK,
             [type |-> "users",
              rows |-> { UserData(u.id, u.name, u.email, u.role) : u \in U }]),
           U, nid, 1, {})

\* A lookup that answers with the mock user whatever the id.
getUserMock(idStr, U, nid) ==
    IF ~Atoi(idStr).ok THEN Result(NotAValidId, U, nid, 0, {})
    ELSE Result(HandlerSuccess(StatusOK,
                               UserData(1, "Yan", "XO2iM@example.com", "")),
                U, nid, 1, {})

\* A lookup that takes the record out of the table as it hands it over.
getUserOnce(idStr, U, nid) ==
    IF ~Atoi(idStr).ok THEN Result(NotAValidId, U, nid, 0, {})
    ELSE IF RowsById(U, Atoi(idStr).val) = {}
    THEN Result(UserNotFound(idStr), U, nid, 1, {})
    ELSE LET u == CHOOSE x \in RowsById(U, Atoi(idStr).val) : TRUE
         IN Result(HandlerSuccess(StatusOK, UserData(u.id, u.name, u.email, "")),
                   U \ {u}, nid, 1, {})

getUser(idStr, U, nid) ==
    IF ~Atoi(idStr).ok THEN Result(NotAValidId, U, nid, 0, {})
    ELSE IF RowsById(U, Atoi(idStr).val) = {}
    THEN Result(UserNotFound(idStr), U, nid, 1, {})
    ELSE LET u == CHOOSE x \in RowsById(U, Atoi(idStr).val) : TRUE
         IN Result(HandlerSuccess(StatusOK, UserData(u.id, u.name, u.email, "")),
                   U, nid, 1, {})

UnauthorizedNever(foundUser, id, ctx) == FALSE

\* The authorization test of updateUser: the id of the row just fetched
\* against the path id, and the context value under the string key "role".
Unauthorized(foundUser, id, ctx) ==
    foundUser.id # id \/ Value(ctx, StringKey("role")) # "admin"

updateUser(ctx, idStr, body, U, nid) ==
    IF ~Atoi(idStr).ok THEN Result(NotAValidId, U, nid, 0, {})
    ELSE IF ~body.valid
    THEN Result(HandlerError(StatusBadRequest, "E400", "Bad request",
                             "Invalid request body"), U, nid, 0, {})
    ELSE IF body.name = "" \/ body.email = ""
    THEN Result(HandlerError(StatusBadRequest, "E400", "Bad request",
                             "name and email are required"), U, nid, 0, {})
    ELSE IF RowsById(U, Atoi(idStr).val) = {}
    THEN Result(UserNotFound(idStr), U, nid, 1, {})
    ELSE LET id == Atoi(idStr).val
             foundUser == CHOOSE x \in RowsById(U, id) : TRUE
         IN IF Unauthorized(foundUser, id, ctx)
            THEN Result(HandlerError(StatusForbidden, "E403", "Forbidden",
                   "You are no authorized to update another user than yourself"),
                   U, nid, 1, {})
            ELSE IF UniqueViolation(U, body.email, id)
            THEN Result(InternalError, U, nid, 2, {})
            ELSE Result(HandlerSuccess(StatusOK,
                                       UserData(id, body.name, body.email, "")),
                        (U \ {foundUser}) \cup
                          {[foundUser EXCEPT !.name = body.name,
                                             !.email = body.email]},
                        nid, 2, {})

\* updateUser in the two parts in which it talks to the store.  The first
\* part checks the path id and the body and looks the record up; an
\* envelope of kind "none" says the record was found and the handler goes
\* on.
updateUserLookup(idStr, body, U, nid) ==
    IF ~Atoi(idStr).ok THEN Result(NotAValidId, U, nid, 0, {})
    ELSE IF ~body.valid
    THEN Result(HandlerError(StatusBadRequest, "E400", "Bad request",
                             "Invalid request body"), U, nid, 0, {})
    ELSE IF body.name = "" \/ body.email = ""
    THEN Result(HandlerError(StatusBadRequest, "E400", "Bad request",
                             "name and email are required"), U, nid, 0, {})
    ELSE IF RowsById(U, Atoi(idStr).val) = {}
    THEN Result(UserNotFound(idStr), U, nid, 1, {})
    ELSE Result(NoEnvelope, U, nid, 1, {})

\* The second part: the authorization test on the record found, whose id
\* is the path id, and the UPDATE ... RETURNING on the table as it is by
\* then.  Scan reports pgx.ErrNoRows when the UPDATE matched no row, and
\* every error of the UPDATE is answered 500.
updateUserCommand(ctx, idStr, body, U, nid) ==
    LET id == Atoi(idStr).val
    IN IF Unauthorized([id |-> id], id, ctx)
       THEN Result(HandlerError(StatusForbidden, "E403", "Forbidden",
              "You are no authorized to update another user than yourself"),
              U, nid, 0, {})
       ELSE IF RowsById(U, id) = {} \/ UniqueViolation(U, body.email, id)
       THEN Result(InternalError, U, nid, 1, {})
       ELSE LET row == CHOOSE x \in RowsById(U, id) : TRUE
            IN Result(HandlerSuccess(StatusOK,
                                     UserData(id, body.name, body.email, "")),
                      (U \ {row}) \cup
                        {[row EXCEPT !.name = body.name,
                                     !.email = body.email]},
                      nid, 1, {})

\* Exec of a DELETE reports no error when no row matches.
deleteUser(idStr, U, nid) ==
    IF ~Atoi(idStr).ok THEN Result(NotAValidId, U, nid, 0, {})
    ELSE Result(HandlerSuccess(StatusNoContent, NilData),
                U \ RowsById(U, Atoi(idStr).val), nid, 1, {})

\* A register that stores and signs the role admin.
RegisterNewAccountAsAdmin(body, U, nid, t) ==
    IF ~body.valid
    THEN Result(HandlerError(StatusBadRequest, "E400", "Invalid request body",
                             "Not a valid JSON"), U, nid, 0, {})
    ELSE IF body.email = "" \/ body.password = "" \/ body.name = ""
    THEN Result(HandlerError(StatusBadRequest, "E400", "Invalid request body",
                             "email, name and password are required"),
                U, nid, 0, {})
    ELSE IF UniqueViolation(U, body.email, 0)
    THEN Result(EmailConflict, U, nid, 1, {})
    ELSE LET token == CreateJwtToken(body.name, "admin", t)
         IN Result(HandlerSuccess(StatusCreated,
                     AuthResponse("Account created successfully", token)),
                   U \cup {Row(nid, body.name, body.email,
                               Hash(body.password), "admin")},
                   nid + 1, 1, {token})

RegisterNewAccount(body, U, nid, t) ==
    IF ~body.valid
    THEN Result(HandlerError(StatusBadRequest, "E400", "Invalid request body",
                             "Not a valid JSON"), U, nid, 0, {})
    ELSE IF body.email = "" \/ body.password = "" \/ body.name = ""
    THEN Result(HandlerError(StatusBadRequest, "E400", "Invalid request body",
                             "email, name and password are required"),
                U, nid, 0, {})
    ELSE IF UniqueViolation(U, body.email, 0)
    THEN Result(EmailConflict, U, nid, 1, {})
    ELSE LET token == CreateJwtToken(body.name, "user", t)
         IN Result(HandlerSuccess(StatusCreated,
                     AuthResponse("Account created successfully", token)),
                   U \cup {Row(nid, body.name, body.email,
                               Hash(body.password), "user")},
                   nid + 1, 1, {token})

InvalidCredentials ==
    HandlerError(StatusUnauthorized, "E401", "Unauthorized",
                 "Invalid email or password")

\* A login that tells an unknown email apart with a 404.
LoginUnknownEmailIs404(body, U, nid, t) ==
    IF ~body.valid
    THEN Result(HandlerError(StatusBadRequest, "E400", "Invalid request body",
                             "Not a valid JSON"), U, nid, 0, {})
    ELSE IF body.email = "" \/ body.password = ""
    THEN Result(HandlerError(StatusBadRequest, "E400", "Invalid request body",
                             "email and password are required"), U, nid, 0, {})
    ELSE IF RowsByEmail(U, body.email) = {}
    THEN Result(HandlerError(StatusNotFound, "E404", "Not found",
                             "No account with this email"), U, nid, 1, {})
    ELSE LET u == CHOOSE x \in RowsByEmail(U, body.email) : TRUE
         IN IF u.hash = NullPassword
            THEN Result(InternalError, U, nid, 1, {})
            ELSE IF ~CompareHashAndPassword(u.hash, body.password)
            THEN Result(InvalidCredentials, U, nid, 1, {})
            ELSE LET token == CreateJwtToken(u.name, u.role, t)
                 IN Result(HandlerSuccess(StatusOK,
                             AuthResponse("Login successful", token)),
                           U, nid, 1, {token})

Login(body, U, nid, t) ==
    IF ~body.valid
    THEN Result(HandlerError(StatusBadRequest, "E400", "Invalid request body",
                             "Not a valid JSON"), U, nid, 0, {})
    ELSE IF body.email = "" \/ body.password = ""
    THEN Result(HandlerError(StatusBadRequest, "E400", "Invalid request body",
                             "email and password are required"), U, nid, 0, {})
    ELSE IF RowsByEmail(U, body.email) = {}
    THEN Result(InvalidCredentials, U, nid, 1, {})
    ELSE LET u == CHOOSE x \in RowsByEmail(U, body.email) : TRUE
         IN IF u.hash = NullPassword
            THEN Result(InternalError, U, nid, 1, {})
            ELSE IF ~CompareHashAndPassword(u.hash, body.password)
            THEN Result(InvalidCredentials, U, nid, 1, {})
            ELSE LET token == CreateJwtToken(u.name, u.role, t)
                 IN Result(HandlerSuccess(StatusOK,
                             AuthResponse("Login successful", token)),
                           U, nid, 1, {token})

HealthCheck(U, nid) ==
    Result(HandlerSuccess(StatusOK, [type |-> "health", health |-> "Alive"]),
           U, nid, 0, {})

\* ensureAdminExists: the table after startup.
ensureAdminExists(U, nid) ==
    IF Cardinality({ u \in U : u.role = "admin" }) = 0
    THEN [users |-> U \cup {Row(nid, "Admin", ADMIN_EMAIL,
                                Hash(ADMIN_PASSWORD), "admin")},
          nextId |-> nid + 1]
    ELSE [users |-> U, nextId |-> nid]


(***************************************************************************)
(* The typed middlewares.  Each yields what it does before next: it        *)
(* short-circuits with an envelope, panics, or calls next with a context.  *)
(***************************************************************************)
BearerFormatAnyScheme(parts) == Len(parts) = 2

BearerFormat(parts) == Len(parts) = 2 /\ parts[1] = <<Word("Bearer")>>

\* A middleware that also looks the account of the token up in the table.
JWTAuthMiddlewareChecksAccount(header, ctx, t) ==
    IF header = <<>>
    THEN [outcome |-> "return", ctx |-> ctx,
          env |-> HandlerError(StatusUnauthorized, "E401", "Unauthorized",
                               "Missing token")]
    ELSE IF ~BearerFormat(Split(header))
    THEN [outcome |-> "return", ctx |-> ctx,
          env |-> HandlerError(StatusUnauthorized, "E401", "Unauthorized",
                               "Invalid token format")]
    ELSE LET claims == TokenOf(Split(header)[2])
         IN IF \/ ~VerifyJwtToken(claims, t)
               \/ \A u \in users : u.name # claims.username
            THEN [outcome |-> "return", ctx |-> ctx,
                  env |-> HandlerError(StatusUnauthorized, "E401",
                                       "Unauthorized", "Invalid token")]
            ELSE [outcome |-> "next", env |-> NoEnvelope,
                  ctx |-> WithValue(WithValue(ctx, ContextUsernameKey,
                                              claims.username),
                                    ContextRoleKey, claims.role)]

JWTAuthMiddleware(header, ctx, t) ==
    IF header = <<>>
    THEN [outcome |-> "return", ctx |-> ctx,
          env |-> HandlerError(StatusUnauthorized, "E401", "Unauthorized",
                               "Missing token")]
    ELSE IF ~BearerFormat(Split(header))
    THEN [outcome |-> "return", ctx |-> ctx,
          env |-> HandlerError(StatusUnauthorized, "E401", "Unauthorized",
                               "Invalid token format")]
    ELSE LET claims == TokenOf(Split(header)[2])
         IN IF ~VerifyJwtToken(claims, t)
            THEN [outcome |-> "return", ctx |-> ctx,
                  env |-> HandlerError(StatusUnauthorized, "E401",
                                       "Unauthorized", "Invalid token")]
            ELSE IF claims.username = NilValue \/ claims.role = NilValue
            THEN [outcome |-> "panic", ctx |-> ctx, env |-> NoEnvelope]
            ELSE [outcome |-> "next", env |-> NoEnvelope,
                  ctx |-> WithValue(WithValue(ctx, ContextUsernameKey,
                                              claims.username),
                                    ContextRoleKey, claims.role)]

\* What JWTAuthMiddleware returns once next has returned nextEnv.
JWTAuthReturn(nextEnv) == HandlerSuccess(StatusOK, NilData)

OnlyAdminMiddlewareAnyRole(ctx) ==
    IF Value(ctx, ContextRoleKey) = NilValue
    THEN [outcome |-> "panic", ctx |-> ctx, env |-> NoEnvelope]
    ELSE [outcome |-> "next", ctx |-> ctx, env |-> NoEnvelope]

OnlyAdminMiddleware(ctx) ==
    IF Value(ctx, ContextRoleKey) = NilValue
    THEN [outcome |-> "panic", ctx |-> ctx, env |-> NoEnvelope]
    ELSE IF Value(ctx, ContextRoleKey) # "admin"
    THEN [outcome |-> "return", ctx |-> ctx,
          env |-> HandlerError(StatusForbidden, "E403", "Forbidden",
                               "You are not an admin")]
    ELSE [outcome |-> "next", ctx |-> ctx, env |-> NoEnvelope]

\* What OnlyAdminMiddleware returns once next has returned nextEnv.
OnlyAdminReturn(nextEnv) == nextEnv

(***************************************************************************)
(* The route table.                                                        *)
(***************************************************************************)
UserRoutes == {"POST /users", "GET /users", "GET /users/{id}",
               "PUT /users/{id}", "DELETE /users/{id}", "GET /users/mock"}
AuthRoutes == {"POST /auth/register", "POST /auth/login"}
Routes == UserRoutes \cup AuthRoutes \cup {"GET /"}

UserRouterRoleFirst(route) ==
    CASE route = "POST /users" -> <<"JWTAuth", "OnlyAdmin">>
      [] route = "GET /users" -> <<"JWTAuth">>
      [] route = "GET /users/{id}" -> <<"JWTAuth">>
      [] route = "PUT /users/{id}" -> <<"JWTAuth">>
      [] route = "DELETE /users/{id}" -> <<"OnlyAdmin", "JWTAuth">>
      [] route = "GET /users/mock" -> <<"JWTAuth", "OnlyAdmin">>
      [] OTHER -> <<>>

\* The middlewares declared on a route, outermost first.
UserRouter(route) ==
    CASE route = "POST /users" -> <<"JWTAuth", "OnlyAdmin">>
      [] route = "GET /users" -> <<"JWTAuth">>
      [] route = "GET /users/{id}" -> <<"JWTAuth">>
      [] route = "PUT /users/{id}" -> <<"JWTAuth">>
      [] route = "DELETE /users/{id}" -> <<"JWTAuth", "OnlyAdmin">>
      [] route = "GET /users/mock" -> <<"JWTAuth", "OnlyAdmin">>
      [] OTHER -> <<>>

(***************************************************************************)
(* A request in the pipeline.                                              *)
(***************************************************************************)
IdleRequest ==
    [pc |-> "idle", route |-> "GET /", header |-> <<>>, layer |-> 0,
     ctx |-> <<>>, at |-> 0, idStr |-> "", body |-> NoBody,
     w |-> NewResponseWriter, invoked |-> <<>>, ops |-> 0,
     env |-> NoEnvelope, nexts |-> <<>>, returned |-> <<>>,
     mwRet |-> <<>>, nextRet |-> <<>>, before |-> {}, signed |-> {}]

NewRequest(route, header, U) ==
    [IdleRequest EXCEPT
       !.pc = IF UserRouter(route) = <<>> THEN "handler" ELSE "mw",
       !.route = route, !.header = header,
       !.layer = IF UserRouter(route) = <<>> THEN 0 ELSE 1,
       !.nexts = [k \in 1..Len(UserRouter(route)) |-> 0],
       !.returned = [k \in 1..Len(UserRouter(route)) |-> FALSE],
       !.mwRet = [k \in 1..Len(UserRouter(route)) |-> NoEnvelope],
       !.nextRet = [k \in 1..Len(UserRouter(route)) |-> NoEnvelope],
       !.before = U]

Chain(q) == UserRouter(q.route)

\* Control leaves layer k of the chain towards the layer around it.
ReturnFrom(q, k) ==
    [q EXCEPT !.pc = IF k = 1 THEN "done" ELSE "unwind", !.layer = k - 1,
              !.returned[k] = TRUE]

\* One MiddlewareAdapter layer up to the point where its middleware either
\* returns or calls next.
EnterLayer(q, name, m) ==
    LET q1 == [q EXCEPT !.w = SetContentType(@),
                        !.invoked = Append(@, name)]
    IN CASE m.outcome = "return" ->
              ReturnFrom([q1 EXCEPT !.w = MiddlewareAdapter(@, m.env),
                                    !.mwRet[q.layer] = m.env], q.layer)
         [] m.outcome = "panic" ->
              [q1 EXCEPT !.w = Recoverer(@), !.pc = "done", !.layer = 0]
         [] OTHER ->
              [q1 EXCEPT !.ctx = m.ctx, !.nexts[q.layer] = @ + 1,
                         !.layer = IF q.layer = Len(Chain(q)) THEN 0
                                   ELSE q.layer + 1,
                         !.pc = IF q.layer = Len(Chain(q)) THEN "handler"
                                ELSE "mw"]

TypeOK ==
    /\ nextId \in 1..(MaxId + 1)
    /\ now \in 0..(MaxNow * Minute)
    /\ phase \in {"boot", "serving"}
    /\ Cardinality(issued) <= MaxTokens
    /\ \A r \in Reqs : req[r].pc \in {"idle", "mw", "handler", "unwind", "done"}

(***************************************************************************)
(* Startup.                                                                *)
(***************************************************************************)
AdminRow == Row(1, "Admin", ADMIN_EMAIL, Hash(ADMIN_PASSWORD), "admin")

InitialTables == { [users |-> {}, nextId |-> 1],
                   [users |-> {AdminRow}, nextId |-> 2] }

Init ==
    /\ \E t \in InitialTables : users = t.users /\ nextId = t.nextId
    /\ now = 0
    /\ issued = {}
    /\ phase = "boot"
    /\ req = [r \in Reqs |-> IdleRequest]

EnsureAdminExists ==
    /\ phase = "boot"
    /\ users' = ensureAdminExists(users, nextId).users
    /\ nextId' = ensureAdminExists(users, nextId).nextId
    /\ phase' = "serving"
    /\ UNCHANGED <<now, issued, req>>

Tick ==
    /\ phase = "serving"
    /\ \E d \in TickSteps : now + d <= MaxNow * Minute /\ now' = now + d
    /\ UNCHANGED <<users, nextId, issued, phase, req>>

(***************************************************************************)
(* Requests.                                                               *)
(***************************************************************************)
\* The MiddlewareAdapter layer the request stands at runs its middleware.
RunLayer(q, t) ==
    IF Chain(q)[q.layer] = "JWTAuth"
    THEN EnterLayer([q EXCEPT !.at = t], "JWTAuth",
                    JWTAuthMiddleware(q.header, q.ctx, t))
    ELSE EnterLayer(q, "OnlyAdmin", OnlyAdminMiddleware(q.ctx))

\* The router takes a request and calls the outermost layer of the chain
\* of its route; a route without middlewares goes to its handler.  The
\* request is for one of routes and, on a /users route, carries one of
\* headers.
Arrivals(routes, headers, U, t) ==
    UNION { { LET q == NewRequest(route, header, U)
              IN IF Chain(q) = <<>> THEN q ELSE RunLayer(q, t) :
              header \in (IF route \in UserRoutes THEN headers ELSE {<<>>}) } :
            route \in routes }

Receive(r) ==
    /\ phase = "serving"
    /\ req[r].pc = "idle"
    /\ \E q \in Arrivals(Routes, Headers(issued, ForgedTokens), users, now) :
         req' = [req EXCEPT ![r] = q]
    /\ UNCHANGED <<users, nextId, now, issued, phase>>

\* A chain that keeps the identity in one place for all requests: the
\* inner layer runs on the context of whichever request touched it last.
NextLayerSharedContext(r) ==
    /\ req[r].pc = "mw"
    /\ \E s \in DOMAIN req :
         req' = [req EXCEPT ![r] =
                   RunLayer([req[r] EXCEPT !.ctx = req[s].ctx], now)]
    /\ UNCHANGED <<users, nextId, now, issued, phase>>

\* A middleware has called next: the layer inside it runs.
NextLayer(r) ==
    /\ req[r].pc = "mw"
    /\ req' = [req EXCEPT ![r] = RunLayer(req[r], now)]
    /\ UNCHANGED <<users, nextId, now, issued, phase>>

\* next has returned (nil, nil) to the middleware of the current layer; the
\* middleware returns and its adapter renders what it returned.
MiddlewareReturn(r) ==
    /\ req[r].pc = "unwind"
    /\ LET q == req[r]
           k == q.layer
           ret == IF Chain(q)[k] = "JWTAuth" THEN JWTAuthReturn(NoEnvelope)
                                             ELSE OnlyAdminReturn(NoEnvelope)
       IN req' = [req EXCEPT ![r] =
                    ReturnFrom([q EXCEPT !.w = MiddlewareAdapter(@, ret),
                                         !.mwRet[k] = ret,
                                         !.nextRet[k] = NoEnvelope], k)]
    /\ UNCHANGED <<users, nextId, now, issued, phase>>

\* The response has gone out; the server drops the request.
Finish(r) ==
    /\ req[r].pc = "done"
    /\ req' = [req EXCEPT ![r] = IdleRequest]
    /\ UNCHANGED <<users, nextId, now, issued, phase>>

\* The ApiHandlerAdapter of a domain handler: the handler runs, the adapter
\* renders its envelope, and control goes back up the chain.
Serve(r, name, idStr, body, res) ==
    /\ res.nextId <= MaxId + 1
    /\ Cardinality(issued \cup res.tokens) <= MaxTokens
    /\ users' = res.users
    /\ nextId' = res.nextId
    /\ issued' = issued \cup res.tokens
    /\ req' = [req EXCEPT ![r] =
                 LET q == [req[r] EXCEPT
                             !.idStr = idStr, !.body = body,
                             !.invoked = Append(@, name),
                             !.ops = @ + res.ops, !.env = res.env,
                             !.signed = res.tokens,
                             !.w = ApiHandlerAdapter(SetContentType(@), res.env)]
                 IN IF Chain(q) = <<>> THEN [q EXCEPT !.pc = "done"]
                    ELSE [q EXCEPT !.pc = "unwind", !.layer = Len(Chain(q))]]
    /\ UNCHANGED <<now, phase>>

UserBodies ==
    {NoBody} \cup { Body(TRUE, n, e, "") : n \in Names \cup {""},
                                           e \in Emails \cup {""} }
             \cup { WithTrailingData(Body(TRUE, "A", "a@x", "")) }
RegisterBodies ==
    {NoBody} \cup { Body(TRUE, n, e, p) : n \in Names \cup {""},
                                          e \in Emails \cup {ADMIN_EMAIL, ""},
                                          p \in Passwords \cup {""} }
             \cup { WithTrailingData(Body(TRUE, "A", "a@x", "p")) }
LoginBodies ==
    {NoBody} \cup { Body(TRUE, "", e, p) :
                      e \in Emails \cup {ADMIN_EMAIL, ""},
                      p \in Passwords \cup {ADMIN_PASSWORD, "wrong", ""} }
             \cup { WithTrailingData(Body(TRUE, "", "a@x", "p")) }

Ready(r, route) == req[r].pc = "handler" /\ req[r].route = route

InsertUser(r) ==
    /\ Ready(r, "POST /users")
    /\ \E body \in UserBodies, schema \in SchemaOutcomes :
         Serve(r, "insertUser", "", body,
               insertUser(body, users, nextId, schema))

GetAllUsers(r) ==
    /\ Ready(r, "GET /users")
    /\ Serve(r, "getAllUsers", "", NoBody, getAllUsers(users, nextId))

GetUser(r) ==
    /\ Ready(r, "GET /users/{id}")
    /\ \E idStr \in IdStrs :
         Serve(r, "getUser", idStr, NoBody, getUser(idStr, users, nextId))

UpdateUser(r) ==
    /\ Ready(r, "PUT /users/{id}")
    /\ \E idStr \in IdStrs, body \in UserBodies :
         Serve(r, "updateUser", idStr, body,
               updateUser(req[r].ctx, idStr, body, users, nextId))

DeleteUser(r) ==
    /\ Ready(r, "DELETE /users/{id}")
    /\ \E idStr \in IdStrs :
         Serve(r, "deleteUser", idStr, NoBody,
               deleteUser(idStr, users, nextId))

GetMockUser(r) ==
    /\ Ready(r, "GET /users/mock")
    /\ Serve(r, "getMockUser", "", NoBody, getMockUser(users, nextId))

\* A register that checks the email against the table as the request found
\* it on arrival and whose INSERT leaves a row that holds the email alone.
RegisterOnSnapshot(r) ==
    /\ Ready(r, "POST /auth/register")
    /\ \E body \in RegisterBodies :
         LET res == RegisterNewAccount(body, req[r].before, nextId, now)
             taken == UniqueViolation(users, body.email, 0)
         IN Serve(r, "RegisterNewAccount", "", body,
                  [res EXCEPT !.users = IF taken THEN users
                                        ELSE users \cup res.users,
                              !.nextId = IF taken THEN nextId ELSE @])

Register(r) ==
    /\ Ready(r, "POST /auth/register")
    /\ \E body \in RegisterBodies :
         Serve(r, "RegisterNewAccount", "", body,
               RegisterNewAccount(body, users, nextId, now))

LogIn(r) ==
    /\ Ready(r, "POST /auth/login")
    /\ \E body \in LoginBodies :
         Serve(r, "Login", "", body, Login(body, users, nextId, now))

Health(r) ==
    /\ Ready(r, "GET /")
    /\ Serve(r, "HealthCheck", "", NoBody, HealthCheck(users, nextId))

Next ==
    \/ EnsureAdminExists
    \/ Tick
    \/ \E r \in Reqs :
         \/ Receive(r)
         \/ NextLayer(r)
         \/ MiddlewareReturn(r)
         \/ Finish(r)
         \/ InsertUser(r)
         \/ GetAllUsers(r)
         \/ GetUser(r)
         \/ UpdateUser(r)
         \/ DeleteUser(r)
         \/ GetMockUser(r)
         \/ Register(r)
         \/ LogIn(r)
         \/ Health(r)

Spec == Init /\ [][Next]_vars

(***************************************************************************)
(* The life of a token against a clock finer than the second: accounts     *)
(* are registered, users log in, and the tokens are presented to           *)
(* GET /users at instants around the fifteenth minute.                     *)
(***************************************************************************)
ClockInstants == {1, TokenTTL * Minute, TokenTTL * Minute + 1}

TickFine ==
    /\ phase = "serving"
    /\ \E t \in ClockInstants :
         now < t /\ t <= MaxNow * Minute /\ now' = t
    /\ UNCHANGED <<users, nextId, issued, phase, req>>

ClockRoutes == {"POST /auth/register", "POST /auth/login", "GET /users"}

ReceiveClock(r) ==
    /\ phase = "serving"
    /\ req[r].pc = "idle"
    /\ \E q \in Arrivals(ClockRoutes, Headers(issued, {}), users, now) :
         req' = [req EXCEPT ![r] = q]
    /\ UNCHANGED <<users, nextId, now, issued, phase>>

NextClock ==
    \/ EnsureAdminExists
    \/ TickFine
    \/ \E r \in Reqs :
         \/ ReceiveClock(r)
         \/ MiddlewareReturn(r)
         \/ Finish(r)
         \/ GetAllUsers(r)
         \/ Register(r)
         \/ LogIn(r)

SpecClock == Init /\ [][NextClock]_vars

(***************************************************************************)
(* Requests that make a middleware fault: they carry a token that another  *)
(* holder of JWT_SECRET signed without a username or without a role.       *)
(***************************************************************************)
ClaimlessTokens ==
    { Token(NilValue, "admin", (MaxNow + TokenTTL) * 60, "HS256",
            JWT_SECRET, 0),
      Token("Admin", NilValue, (MaxNow + TokenTTL) * 60, "HS256",
            JWT_SECRET, 0) }

FaultRoutes == {"POST /auth/login", "GET /users", "DELETE /users/{id}"}

ReceiveFault(r) ==
    /\ phase = "serving"
    /\ req[r].pc = "idle"
    /\ \E q \in Arrivals(FaultRoutes, Headers(issued, ClaimlessTokens),
                          users, now) :
         req' = [req EXCEPT ![r] = q]
    /\ UNCHANGED <<users, nextId, now, issued, phase>>

NextFault ==
    \/ EnsureAdminExists
    \/ \E r \in Reqs :
         \/ ReceiveFault(r)
         \/ NextLayer(r)
         \/ MiddlewareReturn(r)
         \/ Finish(r)
         \/ GetAllUsers(r)
         \/ DeleteUser(r)
         \/ LogIn(r)

SpecFault == Init /\ [][NextFault]_vars

(***************************************************************************)
(* Two requests in the server at once, each on its own goroutine.  The     *)
(* admin has logged in and user A has registered; both tokens are fresh.   *)
(***************************************************************************)
Pair == {1, 2}

InitPair ==
    /\ users = {AdminRow, Row(2, "A", "a@x", Hash("p"), "user")}
    /\ nextId = 3
    /\ now = 0
    /\ issued = {CreateJwtToken("Admin", "admin", 0),
                 CreateJwtToken("A", "user", 0)}
    /\ phase = "serving"
    /\ req = [r \in Pair |-> IdleRequest]

PairRoutes == {"GET /users", "DELETE /users/{id}"}

PairHeaders(I) == { <<Word("Bearer"), Space, Tok(t)>> : t \in I } \cup {<<>>}

ReceivePair(r) ==
    /\ phase = "serving"
    /\ req[r].pc = "idle"
    /\ \E q \in Arrivals(PairRoutes, PairHeaders(issued), users, now) :
         req' = [req EXCEPT ![r] = q]
    /\ UNCHANGED <<users, nextId, now, issued, phase>>

NextPair ==
    \E r \in Pair :
      \/ ReceivePair(r)
      \/ NextLayer(r)
      \/ MiddlewareReturn(r)
      \/ Finish(r)
      \/ GetAllUsers(r)
      \/ DeleteUser(r)

SpecPair == InitPair /\ [][NextPair]_vars


(***************************************************************************)
(* Two register requests in the server at once.  The server has started    *)
(* and holds the admin account only.  Each request sends its one INSERT    *)
(* to the pool; the database runs the two commands one after the other.    *)
(***************************************************************************)
InitRace ==
    /\ users = {AdminRow}
    /\ nextId = 2
    /\ now = 0
    /\ issued = {}
    /\ phase = "serving"
    /\ req = [r \in Pair |-> IdleRequest]

RaceRoutes == {"POST /auth/register"}

ReceiveRace(r) ==
    /\ phase = "serving"
    /\ req[r].pc = "idle"
    /\ \E q \in Arrivals(RaceRoutes, {<<>>}, users, now) :
         req' = [req EXCEPT ![r] = q]
    /\ UNCHANGED <<users, nextId, now, issued, phase>>

NextRace ==
    \E r \in Pair :
      \/ ReceiveRace(r)
      \/ Register(r)
      \/ Finish(r)

SpecRace == InitRace /\ [][NextRace]_vars


(***************************************************************************)
(* Reads repeated while other requests are in the server: two requests at  *)
(* once on the read routes and on DELETE, from the state in which the      *)
(* admin has logged in and user A has registered.                          *)
(***************************************************************************)
ReadRoutes == {"GET /users", "GET /users/{id}"}

ReceiveRead(r) ==
    /\ phase = "serving"
    /\ req[r].pc = "idle"
    /\ \E q \in Arrivals(ReadRoutes \cup {"DELETE /users/{id}"},
                          PairHeaders(issued), users, now) :
         req' = [req EXCEPT ![r] = q]
    /\ UNCHANGED <<users, nextId, now, issued, phase>>

NextRead ==
    \E r \in Pair :
      \/ ReceiveRead(r)
      \/ NextLayer(r)
      \/ MiddlewareReturn(r)
      \/ Finish(r)
      \/ GetAllUsers(r)
      \/ GetUser(r)
      \/ DeleteUser(r)

SpecRead == InitPair /\ [][NextRead]_vars


(***************************************************************************)
(* An update next to a delete.  updateUser talks to the store twice, with  *)
(* its SELECT and with its UPDATE, and another request's command can land  *)
(* between the two.  A request that has sent the SELECT and found the      *)
(* record stands at its handler with one query sent.                       *)
(***************************************************************************)
UpdateRoutes == {"PUT /users/{id}", "DELETE /users/{id}"}

ReceiveUpdate(r) ==
    /\ phase = "serving"
    /\ req[r].pc = "idle"
    /\ \E q \in Arrivals(UpdateRoutes, PairHeaders(issued), users, now) :
         req' = [req EXCEPT ![r] = q]
    /\ UNCHANGED <<users, nextId, now, issued, phase>>

UpdateBodies == {NoBody, Body(TRUE, "A", "b@x", ""), Body(TRUE, "", "b@x", "")}

\* The record was found and the handler has not gone on yet.
AfterLookup(q) ==
    q.pc = "handler" /\ q.route = "PUT /users/{id}" /\ q.ops = 1

UpdateLookup(r) ==
    /\ Ready(r, "PUT /users/{id}")
    /\ req[r].ops = 0
    /\ \E idStr \in IdStrs, body \in UpdateBodies :
         LET res == updateUserLookup(idStr, body, users, nextId)
         IN IF res.env.kind = "none"
            THEN /\ req' = [req EXCEPT ![r].idStr = idStr, ![r].body = body,
                                       ![r].ops = res.ops]
                 /\ UNCHANGED <<users, nextId, now, issued, phase>>
            ELSE Serve(r, "updateUser", idStr, body, res)

UpdateCommand(r) ==
    /\ AfterLookup(req[r])
    /\ Serve(r, "updateUser", req[r].idStr, req[r].body,
             updateUserCommand(req[r].ctx, req[r].idStr, req[r].body,
                               users, nextId))

NextUpdate ==
    \E r \in Pair :
      \/ ReceiveUpdate(r)
      \/ NextLayer(r)
      \/ MiddlewareReturn(r)
      \/ Finish(r)
      \/ UpdateLookup(r)
      \/ UpdateCommand(r)
      \/ DeleteUser(r)

SpecUpdate == InitPair /\ [][NextUpdate]_vars


(***************************************************************************)
(* Properties.                                                             *)
(***************************************************************************)
DomainHandlers == {"insertUser", "getAllUsers", "getUser", "updateUser",
                   "deleteUser", "getMockUser"}

Invoked(q, name) == \E i \in 1..Len(q.invoked) : q.invoked[i] = name

HandlerInvoked(q) == \E h \in DomainHandlers : Invoked(q, h)

\* The header is the word Bearer, one space, and one more word.
ExactBearer(h) ==
    /\ Len(h) = 3
    /\ h[1].ch = "Bearer"
    /\ h[2].ch = " "
    /\ h[3].ch # " "

\* The client got this status with this error record as the whole body.
Answered(q, status, code) ==
    /\ q.w.status = status
    /\ Len(q.w.body) = 1
    /\ q.w.body[1].of.type = "error"
    /\ q.w.body[1].of.code = code

\* The request carries, in the exact Bearer form, a token the server issued.
Authenticated(q) ==
    /\ ExactBearer(q.header)
    /\ q.header[3].tok \in issued
    /\ q.at < NumericDate(q.header[3].tok.exp)

\* C1: a request to a /users route whose Authorization header is absent or
\* is not "Bearer", one space, one token gets 401/E401; no domain handler
\* is invoked for it, and it neither queries nor changes the users table.
C1_MalformedHeaderIs401 ==
    \A r \in Reqs :
      LET q == req[r]
      IN (q.pc # "idle" /\ q.route \in UserRoutes /\ ~ExactBearer(q.header))
         => /\ ~HandlerInvoked(q)
            /\ q.ops = 0
            /\ users = q.before
            /\ q.pc = "done" => Answered(q, StatusUnauthorized, "E401")

\* A request with a token that verifies, but under the scheme "bearer" in
\* lower case, has been answered 401.
C1_Witness ==
    \E r \in Reqs :
      LET q == req[r]
      IN /\ q.pc = "done"
         /\ q.route \in UserRoutes
         /\ Len(q.header) = 3
         /\ q.header[1].ch = "bearer"
         /\ q.header[3].tok \in issued
         /\ q.at < NumericDate(q.header[3].tok.exp)
         /\ Answered(q, StatusUnauthorized, "E401")

\* The token does not verify at time t: it is no JWT, the server's secret
\* did not sign it, it has expired, or its algorithm is not an HMAC one.
FailsVerification(tok, t) ==
    \/ tok.kind # "jwt"
    \/ tok.key # JWT_SECRET
    \/ NumericDate(tok.exp) <= t
    \/ tok.alg \notin {"HS256", "HS384", "HS512"}

InvalidToken ==
    HandlerError(StatusUnauthorized, "E401", "Unauthorized", "Invalid token")

\* C2: when the header is well formed and its token fails verification,
\* JWTAuthMiddleware returns Failure{401, E401, "Invalid token"} whatever
\* the reason, does not call next, and attaches no identity.
C2_InvalidTokenIs401 ==
    \A r \in Reqs :
      LET q == req[r]
      IN (/\ q.route \in UserRoutes
          /\ Invoked(q, "JWTAuth")
          /\ ExactBearer(q.header)
          /\ FailsVerification(TokenOf(<<q.header[3]>>), q.at))
         => /\ q.mwRet[1] = InvalidToken
            /\ q.nexts[1] = 0
            /\ q.invoked = <<"JWTAuth">>
            /\ q.ctx = <<>>
            /\ q.w.status = StatusUnauthorized

\* A token the server issued has been refused after its expiry.
C2_Witness ==
    \E r \in Reqs :
      LET q == req[r]
      IN /\ q.pc = "done"
         /\ q.route \in UserRoutes
         /\ ExactBearer(q.header)
         /\ q.header[3].tok \in issued
         /\ NumericDate(q.header[3].tok.exp) <= q.at
         /\ q.mwRet[1] = InvalidToken

\* C3: a request with a valid token whose role is not "admin" to an
\* admin-only route gets 403/E403; the domain handler is not invoked and
\* the users table is unchanged.
C3_NonAdminIs403 ==
    \A r \in Reqs :
      LET q == req[r]
      IN (/\ q.route \in {"POST /users", "DELETE /users/{id}",
                          "GET /users/mock"}
          /\ Invoked(q, "JWTAuth")
          /\ Authenticated(q)
          /\ q.header[3].tok.role # "admin")
         => /\ ~HandlerInvoked(q)
            /\ q.ops = 0
            /\ users = q.before
            /\ q.pc = "done" => Answered(q, StatusForbidden, "E403")

\* A registered user's token has been refused on DELETE /users/{id}.
C3_Witness ==
    \E r \in Reqs :
      LET q == req[r]
      IN /\ q.pc = "done"
         /\ q.route = "DELETE /users/{id}"
         /\ Authenticated(q)
         /\ q.header[3].tok.role = "user"
         /\ Answered(q, StatusForbidden, "E403")

Before(q, a, b) ==
    \E i, j \in 1..Len(q.invoked) :
      i < j /\ q.invoked[i] = a /\ q.invoked[j] = b

\* C4: on every route with the role check, JWTAuth is declared before it
\* and runs before it: an unauthenticated request to an admin-only route
\* gets 401, never 403, and OnlyAdminMiddleware only ever runs on a context
\* in which JWTAuthMiddleware has put an identity.
C4_AuthBeforeRole ==
    \A r \in Reqs :
      LET q == req[r]
      IN /\ (/\ q.pc = "done"
             /\ \E k \in 1..Len(Chain(q)) : Chain(q)[k] = "OnlyAdmin"
             /\ ~Authenticated(q))
            => /\ q.w.status = StatusUnauthorized
               /\ ~Invoked(q, "OnlyAdmin")
         /\ Invoked(q, "OnlyAdmin")
            => /\ Before(q, "JWTAuth", "OnlyAdmin")
               /\ Value(q.ctx, ContextRoleKey) # NilValue
               /\ Value(q.ctx, ContextUsernameKey) # NilValue

\* A request to DELETE /users/{id} with an admin token that the server did
\* not sign has been answered 401 without reaching the role check.
C4_Witness ==
    \E r \in Reqs :
      LET q == req[r]
      IN /\ q.pc = "done"
         /\ q.route = "DELETE /users/{id}"
         /\ ExactBearer(q.header)
         /\ q.header[3].tok.role = "admin"
         /\ q.header[3].tok.key # JWT_SECRET
         /\ q.w.status = StatusUnauthorized
         /\ q.invoked = <<"JWTAuth">>


\* C5: when verification succeeds, JWTAuthMiddleware calls next exactly
\* once and returns the very envelope next returned.
C5_JWTAuthReturnsNextEnvelope ==
    \A r \in Reqs :
      LET q == req[r]
      IN \A k \in 1..Len(Chain(q)) :
           (Chain(q)[k] = "JWTAuth" /\ Authenticated(q) /\ q.returned[k])
           => /\ q.nexts[k] = 1
              /\ q.mwRet[k] = q.nextRet[k]

\* C6: WriteHeader is called exactly once per request along the whole
\* chain of adapters.
C6_StatusWrittenOnce ==
    \A r \in Reqs :
      req[r].pc = "done" => Len(req[r].w.calls) = 1

\* The row the request is aimed at, as the table held it when the request
\* came in.
Target(q) == { u \in q.before : Atoi(q.idStr).ok /\ u.id = Atoi(q.idStr).val }

ValidUserBody(b) == b.valid /\ b.name # "" /\ b.email # ""

CallerIsAdmin(q) == q.header[3].tok.role = "admin"
CallerOwns(q, u) == q.header[3].tok.username = u.name

\* C7: PUT /users/{id} with a valid body on an existing record, by an admin
\* or by the owner of the record, is not refused: name and email are
\* updated and the answer is 200 with the updated user.
C7_AdminOrOwnerMayUpdate ==
    \A r \in Reqs :
      LET q == req[r]
      IN \A u \in Target(q) :
           (/\ q.pc = "done"
            /\ q.route = "PUT /users/{id}"
            /\ Invoked(q, "updateUser")
            /\ ValidUserBody(q.body)
            /\ ~UniqueViolation(q.before, q.body.email, u.id)
            /\ CallerIsAdmin(q) \/ CallerOwns(q, u))
           => /\ q.w.status = StatusOK
              /\ q.env = HandlerSuccess(StatusOK,
                           UserData(u.id, q.body.name, q.body.email, ""))
              /\ [u EXCEPT !.name = q.body.name, !.email = q.body.email]
                   \in users

\* C8 as stated: PUT /users/{id} by a caller who is neither admin nor the
\* owner of the existing target record is answered 403/E403, and no record
\* changes.
C8_StrangerIs403 ==
    \A r \in Reqs :
      LET q == req[r]
      IN \A u \in Target(q) :
           (/\ q.pc = "done"
            /\ q.route = "PUT /users/{id}"
            /\ Invoked(q, "updateUser")
            /\ ~CallerIsAdmin(q) /\ ~CallerOwns(q, u))
           => /\ Answered(q, StatusForbidden, "E403")
              /\ users = q.before

\* C8 amended: such a caller leaves every record unchanged, and is answered
\* 403/E403 when the body decodes and has a name and an email; a body that
\* does not is answered 400/E400 before the record is looked up.
C8_StrangerChangesNothing ==
    \A r \in Reqs :
      LET q == req[r]
      IN \A u \in Target(q) :
           (/\ q.route = "PUT /users/{id}"
            /\ Invoked(q, "updateUser")
            /\ ~CallerIsAdmin(q) /\ ~CallerOwns(q, u))
           => /\ users = q.before
              /\ q.pc = "done" =>
                   IF ValidUserBody(q.body)
                   THEN Answered(q, StatusForbidden, "E403")
                   ELSE Answered(q, StatusBadRequest, "E400") /\ q.ops = 0

\* A registered user has sent a valid body for the admin's record and has
\* been answered 403.
C8_Witness ==
    \E r \in Reqs :
      LET q == req[r]
      IN \E u \in Target(q) :
           /\ q.pc = "done"
           /\ q.route = "PUT /users/{id}"
           /\ Invoked(q, "updateUser")
           /\ u.role = "admin"
           /\ q.header[3].tok.role = "user"
           /\ ~CallerOwns(q, u)
           /\ ValidUserBody(q.body)
           /\ q.body.name # u.name
           /\ Answered(q, StatusForbidden, "E403")

\* C9: DELETE /users/{id} by an admin for an integer id without a record is
\* answered 404/E404, and 204 is answered only when a record with that id
\* existed and is gone.
C9_DeleteMissingIs404 ==
    \A r \in Reqs :
      LET q == req[r]
      IN (/\ q.pc = "done"
          /\ q.route = "DELETE /users/{id}"
          /\ Invoked(q, "deleteUser")
          /\ Atoi(q.idStr).ok)
         => /\ Target(q) = {} => Answered(q, StatusNotFound, "E404")
            /\ q.w.status = StatusNoContent =>
                 Target(q) # {} /\ RowsById(users, Atoi(q.idStr).val) = {}

\* C10: when a handler returns a success envelope without data, the adapter
\* writes the status and hands no body bytes to the response writer.
C10_NilDataWritesNoBody ==
    \A r \in Reqs :
      LET q == req[r]
      IN (q.env.kind = "success" /\ q.env.data = NilData)
         => /\ q.w.calls # <<>>
            /\ q.w.writes = <<>>

(***************************************************************************)
(* Token lifetime.                                                         *)
(***************************************************************************)
\* The request presents, in the exact Bearer form, a token the server
\* issued, and JWTAuthMiddleware has looked at it.
Presents(q) ==
    /\ q.route \in UserRoutes
    /\ Invoked(q, "JWTAuth")
    /\ ExactBearer(q.header)
    /\ q.header[3].tok \in issued

Accepted(q) ==
    /\ q.nexts[1] = 1
    /\ q.mwRet[1].kind # "failure"

Rejected(q) ==
    /\ q.nexts[1] = 0
    /\ q.mwRet[1] = InvalidToken
    /\ q.pc = "done" => Answered(q, StatusUnauthorized, "E401")

\* C11 as stated: a token issued at t is rejected with 401/E401 on every
\* request made later than t + 15 minutes and accepted on every request
\* made before t + 15 minutes.
C11_FifteenMinutesFromIssue ==
    \A r \in Reqs :
      LET q == req[r]
          t == q.header[3].tok.signedAt
      IN Presents(q)
         => /\ q.at > t + TokenTTL * Minute => Rejected(q)
            /\ q.at < t + TokenTTL * Minute => Accepted(q)

\* The instant at which a token signed at t stops being valid: t + 15
\* minutes cut down to the whole second.
Deadline(t) == NumericDate(Unix(t + TokenTTL * Minute))

\* C11 amended: the token is rejected with 401/E401 on every request made
\* at or after t + 15 minutes cut down to the whole second, so on every
\* request later than t + 15 minutes, and accepted on every request made
\* before that instant.
C11_FifteenMinutesInWholeSeconds ==
    \A r \in Reqs :
      LET q == req[r]
          t == q.header[3].tok.signedAt
      IN Presents(q)
         => /\ q.at >= Deadline(t) => Rejected(q)
            /\ q.at > t + TokenTTL * Minute => Rejected(q)
            /\ q.at < Deadline(t) => Accepted(q)

\* A token signed half a second past a whole second has been refused half
\* a second before its fifteen minutes were over.
C11_Witness ==
    \E r \in Reqs :
      LET q == req[r]
          t == q.header[3].tok.signedAt
      IN /\ q.pc = "done"
         /\ Presents(q)
         /\ Deadline(t) <= q.at
         /\ q.at < t + TokenTTL * Minute
         /\ Answered(q, StatusUnauthorized, "E401")
\* C12: expiry is the only thing that ends a token's validity.  Whatever
\* the API has done since the token was issued (its account deleted or
\* changed, newer tokens issued), a token that has not expired passes
\* authentication, and the identity attached is the username and role it
\* was issued with.
C12_OnlyExpiryEndsValidity ==
    \A r \in Reqs :
      LET q == req[r]
          tok == q.header[3].tok
      IN (Presents(q) /\ q.at < NumericDate(tok.exp))
         => /\ Accepted(q)
            /\ Value(q.ctx, ContextUsernameKey) = tok.username
            /\ Value(q.ctx, ContextRoleKey) = tok.role

\* The token of a registered user has passed authentication after the
\* account was deleted and while the admin held a newer token.
C12_Witness ==
    \E r \in Reqs :
      LET q == req[r]
          tok == q.header[3].tok
      IN /\ q.pc = "done"
         /\ Presents(q)
         /\ tok.role = "user"
         /\ \A u \in q.before : u.name # tok.username
         /\ \E k \in issued : k.role = "admin" /\ k.signedAt >= tok.signedAt
         /\ Accepted(q)
         /\ Value(q.ctx, ContextUsernameKey) = tok.username
(***************************************************************************)
(* Accounts and credentials.                                               *)
(***************************************************************************)
\* The request is a register answered 201 or a login answered 200.
Issuing(q) ==
    /\ q.pc = "done"
    /\ \/ q.route = "POST /auth/register" /\ q.w.status = StatusCreated
       \/ q.route = "POST /auth/login" /\ q.w.status = StatusOK

\* The token in the body of the response.
TokenReturned(q) == q.w.body[1].of.token

CompleteAccountBody(b) ==
    b.valid /\ b.name # "" /\ b.email # "" /\ b.password # ""

\* C14: a register with an email no record holds is answered 201 and
\* creates the record; a register with an email a record already holds is
\* answered 409/E409, creates no record, signs no token and leaves the
\* record that holds the email as it was.
C14_DuplicateEmailIs409 ==
    \A r \in Reqs :
      LET q == req[r]
      IN (/\ q.pc = "done"
          /\ q.route = "POST /auth/register"
          /\ CompleteAccountBody(q.body))
         => IF RowsByEmail(q.before, q.body.email) = {}
            THEN /\ q.w.status = StatusCreated
                 /\ \E u \in users \ q.before :
                      /\ u.email = q.body.email
                      /\ u.name = q.body.name
                      /\ users = q.before \cup {u}
            ELSE /\ Answered(q, StatusConflict, "E409")
                 /\ users = q.before
                 /\ q.signed = {}
                 /\ RowsByEmail(users, q.body.email)
                      = RowsByEmail(q.before, q.body.email)

\* A second register with the email of an account that register created
\* has been answered 409.
C14_Witness ==
    \E r \in Reqs :
      LET q == req[r]
      IN \E u \in q.before :
           /\ q.pc = "done"
           /\ q.route = "POST /auth/register"
           /\ CompleteAccountBody(q.body)
           /\ u.email = q.body.email
           /\ u.hash = Hash(q.body.password)
           /\ u.role = "user"
           /\ Answered(q, StatusConflict, "E409")
           /\ users = q.before
\* The login has been answered 200 with a token.
LoggedIn(q) ==
    /\ q.w.status = StatusOK
    /\ Len(q.w.body) = 1
    /\ q.w.body[1].of.type = "auth"
    /\ q.w.body[1].of.token \in issued

\* C15: login is answered 200 with a token exactly when a record has the
\* email and the verify of its stored hash against the supplied password
\* succeeds; for an account made by register(email, p), login(email, p)
\* is answered 200 and login(email, q) with another q 401/E401; and the
\* record register stores holds the hash of the password.
C15_LoginIffHashVerifies ==
    \A r \in Reqs :
      LET q == req[r]
      IN /\ (q.pc = "done" /\ q.route = "POST /auth/login")
            => /\ LoggedIn(q)
                    <=> \E u \in q.before :
                          /\ u.email = q.body.email
                          /\ CompareHashAndPassword(u.hash, q.body.password)
               /\ \A u \in q.before :
                    (/\ u.email = q.body.email
                     /\ u.hash.alg = "bcrypt"
                     /\ q.body.valid /\ q.body.password # "")
                    => IF u.hash = Hash(q.body.password)
                       THEN LoggedIn(q)
                       ELSE Answered(q, StatusUnauthorized, "E401")
         /\ (/\ q.pc = "done"
             /\ q.route = "POST /auth/register"
             /\ q.w.status = StatusCreated)
            => \E u \in users \ q.before :
                 /\ u.email = q.body.email
                 /\ u.hash.alg = "bcrypt"
                 /\ CompareHashAndPassword(u.hash, q.body.password)
                 /\ \A p \in Passwords \cup {ADMIN_PASSWORD, "wrong", ""} :
                      p # q.body.password => ~CompareHashAndPassword(u.hash, p)

\* A login with a wrong password for an account that register created has
\* been answered 401.
C15_Witness ==
    \E r \in Reqs :
      LET q == req[r]
      IN \E u \in q.before :
           /\ q.pc = "done"
           /\ q.route = "POST /auth/login"
           /\ u.email = q.body.email
           /\ u.role = "user"
           /\ u.hash.alg = "bcrypt"
           /\ q.body.password # ""
           /\ u.hash # Hash(q.body.password)
           /\ Answered(q, StatusUnauthorized, "E401")
(***************************************************************************)
(* Bad requests and faults.                                                *)
(***************************************************************************)
IdRoutes == {"GET /users/{id}", "PUT /users/{id}", "DELETE /users/{id}"}

\* The path parameter is written as an integer.
IsInteger(s) == s \in {"1", "2", "3"}

\* C16: on GET, PUT and DELETE /users/{id}, an authenticated request whose
\* path id is not an integer is answered 400/E400, and the handler sends
\* no query and no command to the store.
C16_MalformedIdIs400 ==
    \A r \in Reqs :
      LET q == req[r]
      IN (/\ q.route \in IdRoutes
          /\ HandlerInvoked(q)
          /\ ~IsInteger(q.idStr))
         => /\ q.env = NotAValidId
            /\ q.ops = 0
            /\ users = q.before
            /\ q.pc = "done" => Answered(q, StatusBadRequest, "E400")

\* PUT /users/abc with a complete body has been answered 400.
C16_Witness ==
    \E r \in Reqs :
      LET q == req[r]
      IN /\ q.pc = "done"
         /\ q.route = "PUT /users/{id}"
         /\ Invoked(q, "updateUser")
         /\ q.idStr = "abc"
         /\ ValidUserBody(q.body)
         /\ q.ops = 0
         /\ Answered(q, StatusBadRequest, "E400")
BodyRoutes == {"POST /auth/register", "POST /auth/login", "POST /users",
               "PUT /users/{id}"}

BodyHandlers == {"RegisterNewAccount", "Login", "insertUser", "updateUser"}

\* The whole body is one JSON value.
ValidJSON(b) == b.valid /\ b.rest = ""

\* A field the handler of the route requires is empty.
RequiredFieldEmpty(route, b) ==
    CASE route = "POST /auth/register" ->
           b.name = "" \/ b.email = "" \/ b.password = ""
      [] route = "POST /auth/login" -> b.email = "" \/ b.password = ""
      [] OTHER -> b.name = "" \/ b.email = ""

\* C17: for register, login, insertUser and updateUser, a body that is not
\* valid JSON or that leaves a required field empty is answered 400/E400,
\* and the handler returns before it sends a query or a command to the
\* store, which stays as it was.
C17_BadBodyIs400 ==
    \A r \in Reqs :
      LET q == req[r]
      IN (/\ q.route \in BodyRoutes
          /\ \E h \in BodyHandlers : Invoked(q, h)
          /\ ~ValidJSON(q.body) \/ RequiredFieldEmpty(q.route, q.body))
         => /\ q.ops = 0
            /\ users = q.before
            /\ q.env.kind = "failure" /\ q.env.status = StatusBadRequest
            /\ q.pc = "done" => Answered(q, StatusBadRequest, "E400")
\* A layer of the request has panicked: the request is over although its
\* outermost layer never returned.
Faulted(q) ==
    /\ q.pc = "done"
    /\ Chain(q) # <<>>
    /\ ~q.returned[1]

\* C18: when a middleware or a handler faults instead of returning an
\* envelope, the client gets a 500 whose body is the E500 error record.
C18_FaultIsE500 ==
    \A r \in Reqs :
      Faulted(req[r]) => Answered(req[r], StatusInternalServerError, "E500")
(***************************************************************************)
(* Failure envelopes.                                                      *)
(***************************************************************************)
FailureStatuses == {400, 401, 403, 404, 409, 500}

\* The letter E followed by the status.
ErrorCode(status) ==
    CASE status = 400 -> "E400"
      [] status = 401 -> "E401"
      [] status = 403 -> "E403"
      [] status = 404 -> "E404"
      [] status = 409 -> "E409"
      [] status = 500 -> "E500"
      [] OTHER -> "E?"

\* Every envelope a middleware or the handler of the request has returned.
Envelopes(q) == {q.env} \cup { q.mwRet[k] : k \in 1..Len(q.mwRet) }

\* C19: every Failure envelope a middleware or a handler produces has a
\* status in {400, 401, 403, 404, 409, 500} and the code "E" followed by
\* that status, and the code in an error body is the one of the status
\* line it is sent under.
C19_CodeMatchesStatus ==
    \A r \in Reqs :
      LET q == req[r]
      IN /\ \A e \in Envelopes(q) :
              e.kind = "failure"
              => /\ e.status \in FailureStatuses
                 /\ e.code = ErrorCode(e.status)
         /\ \A i \in 1..Len(q.w.body) :
              q.w.body[i].of.type = "error"
              => q.w.body[i].of.code = ErrorCode(q.w.status)

\* A register or a POST /users with a taken email has been answered 409
\* with the code E409.
C19_Witness ==
    \E r \in Reqs :
      LET q == req[r]
      IN /\ q.pc = "done"
         /\ q.route \in {"POST /auth/register", "POST /users"}
         /\ q.env.kind = "failure"
         /\ q.env.status = StatusConflict
         /\ Answered(q, StatusConflict, "E409")
(***************************************************************************)
(* Requests side by side.                                                  *)
(***************************************************************************)
\* The context of the request holds the identity of the request's own
\* token and nothing else.
OwnIdentity(q) ==
    /\ ExactBearer(q.header)
    /\ Len(q.ctx) = 2
    /\ Value(q.ctx, ContextUsernameKey) = q.header[3].tok.username
    /\ Value(q.ctx, ContextRoleKey) = q.header[3].tok.role

Registered(q) ==
    /\ q.w.status = StatusCreated
    /\ Len(q.w.body) = 1
    /\ q.w.body[1].of.type = "auth"
    /\ q.w.body[1].of.token \in issued

\* Both requests are registers with complete bodies for one email that no
\* record held when either came in, and both handlers have run while the
\* other request was in the server.
RacingRegisters(q1, q2) ==
    /\ q1.route = "POST /auth/register" /\ q2.route = "POST /auth/register"
    /\ q1.pc = "done" /\ q2.pc = "done"
    /\ CompleteAccountBody(q1.body) /\ CompleteAccountBody(q2.body)
    /\ q1.body.email = q2.body.email
    /\ RowsByEmail(q1.before, q1.body.email) = {}
    /\ RowsByEmail(q2.before, q2.body.email) = {}

\* C21: of register requests with the same email that run concurrently,
\* exactly one is answered 201 with a token and every other one 409/E409,
\* and the table ends with exactly one record for that email.
C21_OneRegisterWins ==
    \A r, s \in DOMAIN req :
      (r # s /\ RacingRegisters(req[r], req[s]))
      => /\ \/ Registered(req[r]) /\ Answered(req[s], StatusConflict, "E409")
            \/ Registered(req[s]) /\ Answered(req[r], StatusConflict, "E409")
         /\ ~(Registered(req[r]) /\ Registered(req[s]))
         /\ Cardinality(RowsByEmail(users, req[r].body.email)) = 1

\* Two registers for a@x that came in while no record held a@x have both
\* been answered, the second of them 409.
C21_Witness ==
    \E r, s \in DOMAIN req :
      /\ r # s
      /\ RacingRegisters(req[r], req[s])
      /\ req[r].body.email = "a@x"
      /\ Registered(req[r])
      /\ Answered(req[s], StatusConflict, "E409")
      /\ req[s].signed = {}

(***************************************************************************)
(* The route table against the README, and the response as the client      *)
(* sees it.                                                                *)
(***************************************************************************)
\* C22: GET /users, GET /users/{id} and PUT /users/{id} are admin only: a
\* caller whose valid token carries a role other than "admin" is refused
\* with 403.
C22_ReadAndUpdateAreAdminOnly ==
    \A r \in Reqs :
      LET q == req[r]
      IN (/\ q.pc = "done"
          /\ q.route \in {"GET /users", "GET /users/{id}", "PUT /users/{id}"}
          /\ Authenticated(q)
          /\ q.header[3].tok.role # "admin")
         => q.w.status = StatusForbidden

\* C23: every adapter layer sets Content-Type: application/json before a
\* status is written, on success, failure and short-circuit alike: no
\* WriteHeader call ever happens while Content-Type is unset, and every
\* layer that has run has left the header set.
C23_ContentTypeBeforeStatus ==
    \A r \in Reqs :
      LET w == req[r].w
      IN /\ Len(w.ctAtWrite) = Len(w.calls)
         /\ \A i \in 1..Len(w.calls) : w.ctAtWrite[i] = "application/json"
         /\ req[r].invoked # <<>> => w.contentType = "application/json"

\* A non-admin has been short-circuited by the role check: the 403 of the
\* inner layer and the 200 of the outer one were both written with the
\* header set.
C23_Witness ==
    \E r \in Reqs :
      LET q == req[r]
      IN /\ q.pc = "done"
         /\ q.invoked = <<"JWTAuth", "OnlyAdmin">>
         /\ q.w.calls = <<StatusForbidden, StatusOK>>
         /\ q.w.ctAtWrite = <<"application/json", "application/json">>

\* The role check stands on the route and refuses the role of the token.
RoleRefused(q) ==
    /\ \E k \in 1..Len(Chain(q)) : Chain(q)[k] = "OnlyAdmin"
    /\ q.header[3].tok.role # "admin"

\* C26: on every protected route the status the client sees is 401 when
\* authentication fails, otherwise 403 when the route is admin-only and
\* the role is not admin, otherwise the status of the envelope the domain
\* handler returned, failures included; it is the status of the first
\* WriteHeader call, and the 200 JWTAuthMiddleware returns after next
\* never replaces it.
C26_FirstWriterDecides ==
    \A r \in Reqs :
      LET q == req[r]
      IN /\ q.w.calls # <<>> => q.w.status = q.w.calls[1]
         /\ (q.pc = "done" /\ q.route \in UserRoutes)
            => q.w.status =
                 IF ~Authenticated(q) THEN StatusUnauthorized
                 ELSE IF RoleRefused(q) THEN StatusForbidden
                 ELSE q.env.status

\* GET /users/{id} for an id no record has: the handler's 404 went out
\* first, the 200 of JWTAuthMiddleware came after it, and the client sees
\* the 404.
C26_Witness ==
    \E r \in Reqs :
      LET q == req[r]
      IN /\ q.pc = "done"
         /\ q.route = "GET /users/{id}"
         /\ Authenticated(q)
         /\ q.env.status = StatusNotFound
         /\ q.w.calls = <<StatusNotFound, StatusOK>>
         /\ q.w.status = StatusNotFound

(***************************************************************************)
(* Reads.                                                                  *)
(***************************************************************************)
\* Two answered requests for the same read with the same valid token, both
\* made of the table as it stands.
SameRead(q1, q2) ==
    /\ q1.pc = "done" /\ q2.pc = "done"
    /\ q1.route \in ReadRoutes /\ q2.route = q1.route
    /\ q1.header = q2.header
    /\ Authenticated(q1) /\ Authenticated(q2)
    /\ q1.idStr = q2.idStr
    /\ q1.before = users /\ q2.before = users

\* The step in which the handler of a read route runs for request r.
ReadStep(r) ==
    /\ req[r].pc = "handler"
    /\ req[r].route \in ReadRoutes
    /\ req'[r].pc # "handler"

C25_GetUserCarriesRole ==
    \A r \in Reqs :
      LET q == req[r]
      IN \A u \in Target(q) :
           (/\ q.pc = "done"
            /\ q.route = "GET /users/{id}"
            /\ q.w.status = StatusOK)
           => /\ Len(q.w.body) = 1
              /\ q.w.body[1].of.role = u.role
              /\ q.w.body[1].of \in getAllUsers(q.before, nextId).env.data.rows

(***************************************************************************)
(* Roles.                                                                  *)
(***************************************************************************)
\* A request with this token, made the moment it was signed, gets through
\* JWTAuthMiddleware and OnlyAdminMiddleware.
PassesOnlyAdmin(tok) ==
    LET m == JWTAuthMiddleware(<<Word("Bearer"), Space, Tok(tok)>>, <<>>,
                               tok.signedAt)
    IN /\ m.outcome = "next"
       /\ OnlyAdminMiddleware(m.ctx).outcome = "next"

\* C27: no privilege escalation through the API.  Every token register
\* signs carries role "user"; every account but the one made at startup
\* has role "user", and no request leaves an account with another role
\* than it had when the request came in; so the token a login signs for
\* such an account, like every token signed for another name than the
\* admin's, does not pass OnlyAdminMiddleware.
C27_NoPrivilegeEscalation ==
    /\ \A u \in users : u # AdminRow => u.role = "user"
    /\ \A tok \in issued :
         PassesOnlyAdmin(tok) => tok.username = AdminRow.name
    /\ \A r \in Reqs :
         LET q == req[r]
         IN /\ \A u \in q.before : \A v \in users :
                 u.id = v.id => u.role = v.role
            /\ \A tok \in q.signed :
                 /\ Invoked(q, "RegisterNewAccount")
                    => tok.role = "user" /\ ~PassesOnlyAdmin(tok)
                 /\ Invoked(q, "Login")
                    => \A u \in RowsByEmail(users, q.body.email) :
                         /\ tok.role = u.role
                         /\ u # AdminRow => ~PassesOnlyAdmin(tok)

\* The account register made for a@x has logged in; the token it got
\* carries role "user" and is turned away by OnlyAdminMiddleware.
C27_Witness ==
    \E r \in Reqs :
      LET q == req[r]
      IN \E u \in users :
           /\ q.pc = "done"
           /\ q.route = "POST /auth/login"
           /\ LoggedIn(q)
           /\ u.email = q.body.email
           /\ u.hash = Hash(q.body.password)
           /\ u # AdminRow
           /\ TokenReturned(q) \in q.signed
           /\ TokenReturned(q).role = "user"
           /\ OnlyAdminMiddleware(
                WithValue(<<>>, ContextRoleKey, TokenReturned(q).role)).outcome
                = "return"

(***************************************************************************)
(* Update against delete.                                                  *)
(***************************************************************************)
\* Request r has looked its record up and found it, the record has been
\* deleted since, and in this step the rest of updateUser runs.
UpdateAfterDelete(r) ==
    /\ AfterLookup(req[r])
    /\ Target(req[r]) # {}
    /\ RowsById(users, Atoi(req[r].idStr).val) = {}
    /\ req'[r].pc # "handler"

\* C28: when the target record is deleted by a concurrent request between
\* updateUser's lookup and its UPDATE command, updateUser answers 404/E404:
\* never 200 for a record that is gone, and never 500.
C28_UpdateOfDeletedIs404 ==
    [][\A r \in DOMAIN req :
         UpdateAfterDelete(r)
         => /\ req'[r].env.status = StatusNotFound
            /\ req'[r].env.code = "E404"
            /\ req'[r].w.status = StatusNotFound]_vars

(***************************************************************************)
(* What a failed login gives away.                                         *)
(***************************************************************************)
\* All of the response the client can see.
Response(q) ==
    [status |-> q.w.status, contentType |-> q.w.contentType,
     body |-> q.w.body]

\* The response to a login that is refused for its credentials.
RefusedLogin ==
    [status |-> StatusUnauthorized, contentType |-> "application/json",
     body |-> <<[json |-> "value",
                 of |-> [type |-> "error", code |-> "E401",
                         message |-> "Unauthorized",
                         detail |-> "Invalid email or password"]]>>]

\* No record has the email of the login.
UnknownEmail(q) == RowsByEmail(q.before, q.body.email) = {}

\* A record has the email, and its password hash does not verify against
\* the password of the login.
WrongPassword(q) ==
    \E u \in RowsByEmail(q.before, q.body.email) :
      u.hash.alg = "bcrypt" /\ ~CompareHashAndPassword(u.hash, q.body.password)

C30_AdminAlwaysExists ==
    phase = "serving"
    => /\ \E u \in users : u.role = "admin"
       /\ ensureAdminExists(users, nextId) = [users |-> users,
                                             nextId |-> nextId]
====
